---- MODULE Spec2Model ----
(***************************************************************************)
(* Client-side job / group state of the audio transcription front end:     *)
(*   - the job registry and its polling loop  (hooks/useTranscription.ts)  *)
(*   - the mock transcription provider        (services/transcriptionService) *)
(*   - the group registry                     (hooks/useTranscriptionGroups.ts) *)
(* React state updates are functional updaters applied in call order, and  *)
(* JavaScript runs each event handler / timer callback / promise           *)
(* continuation chain to completion, so each handler is one atomic action. *)
(***************************************************************************)
EXTENDS Integers, Sequences, FiniteSets, TLC

\* ---------------------------------------------------------------- bounds
MaxJobs == 2          \* jobs started in one behaviour (job ids 1..MaxJobs)
MaxEdits == 2         \* caller edits of the job registry in one behaviour
MaxGroups == 3        \* groups created in one behaviour of the membership model
MaxCreated == 9       \* groups created in one behaviour of the palette model
MaxExport == 2        \* jobs handed to one batch export
MaxAppJobs == 1       \* jobs started through the App's handlers
MaxAppGroups == 2     \* groups created through the App's handlers
MaxShownJobs == 2     \* jobs started in the group manager's model
MaxBatch == 2         \* files handed to one processFiles call
MaxAudio == 3         \* AudioFile records built in one behaviour

\* ------------------------------------------------------- program constants
ProgressStep == 10    \* simulateTranscription: progress += 10
ProgressMax == 100    \* simulateTranscription: progress <= 100
PaletteSize == 8      \* GROUP_COLORS.length

\* An optional field is a sequence of length <= 1: <<>> is undefined.
Undefined == <<>>
Some(x) == <<x>>
IsSet(o) == o # Undefined

JobIds == 1..MaxJobs

\* GROUP_COLORS, 0-indexed as in the source
GROUP_COLORS == [i \in 0..(PaletteSize - 1) |->
    CASE i = 0 -> "#3B82F6"
      [] i = 1 -> "#10B981"
      [] i = 2 -> "#F59E0B"
      [] i = 3 -> "#EF4444"
      [] i = 4 -> "#8B5CF6"
      [] i = 5 -> "#06B6D4"
      [] i = 6 -> "#F97316"
      [] i = 7 -> "#84CC16"]

\* ------------------------------------------------------------ input sets
\* Strings are sequences of characters so that trim() is computed, not assumed.
Space == " "
NameBlank == <<Space, Space>>
NameNotes == <<"N">>
NamePadded == <<Space, "N">>
Names == {NameBlank, NameNotes, NamePadded}
Descriptions == {Undefined}
FileNames == {"meeting.mp3"}
\* texts are sequences of tokens; <<>> is the empty string
EmptyText == <<>>
Texts == {EmptyText, <<"edited">>}
GroupRefs == {Undefined, Some(1)}
\* what a failing provider call may throw: an Error, or a non-Error value
Failures == {[isError |-> TRUE, message |-> "Network down"],
             [isError |-> FALSE, message |-> "n/a"]}

VARIABLES
    jobs,          \* useTranscription: jobs state (newest first)
    isLoading,     \* useTranscription: isLoading state
    closureJob,    \* the `job` constant captured by each startTranscription call
    svcJobs,       \* TranscriptionService.jobs (the provider's Map)
    simPc,         \* position of each simulateTranscription coroutine
    pollTimer,     \* the setInterval handle of each startTranscription call
    nextJobId,     \* fresh job identifiers
    nEdits,        \* caller edits of the job registry made so far
    groups,        \* useTranscriptionGroups: groups state (creation order)
    nextGroupId,   \* fresh group identifiers
    exported,      \* the last downloadBatchTranscripts call: arguments and payloads
    selectedJob,   \* App: selectedJob state (the record shown in the editor)
    audioFiles,    \* useAudioFile: audioFiles state
    isProcessing,  \* useAudioFile: isProcessing state
    ingest,        \* the processFiles call in flight: its files, position, result
    returned,      \* arguments and return value of the last finished processFiles
    urls,          \* object URLs created so far: "live" or "revoked"
    nextAudioId    \* fresh AudioFile identifiers

jobVars == <<jobs, isLoading, closureJob, svcJobs, simPc, pollTimer, nextJobId,
            nEdits>>
groupVars == <<groups, nextGroupId>>
editorVars == <<selectedJob>>
audioVars == <<audioFiles, isProcessing, ingest, returned, urls, nextAudioId>>
uiVars == <<editorVars, audioVars>>
vars == <<jobs, isLoading, closureJob, svcJobs, simPc, pollTimer, nextJobId, nEdits,
          groups, nextGroupId, exported, selectedJob, audioFiles, isProcessing,
          ingest, returned, urls, nextAudioId>>

\* ------------------------------------------------------- sequence helpers
\* Array.prototype.filter(x => x !== v)
RECURSIVE Without(_, _)
Without(s, v) ==
    IF s = <<>> THEN <<>>
    ELSE IF Head(s) = v THEN Without(Tail(s), v)
         ELSE <<Head(s)>> \o Without(Tail(s), v)

Range(s) == {s[i] : i \in 1..Len(s)}

\* Map.prototype.set
Put(m, k, v) == [x \in (DOMAIN m) \cup {k} |-> IF x = k THEN v ELSE m[x]]

\* String.prototype.trim on a character sequence
RECURSIVE TrimLeft(_)
TrimLeft(s) ==
    IF s = <<>> THEN <<>>
    ELSE IF Head(s) = Space THEN TrimLeft(Tail(s)) ELSE s

RECURSIVE TrimRight(_)
TrimRight(s) ==
    IF s = <<>> THEN <<>>
    ELSE IF s[Len(s)] = Space THEN TrimRight(SubSeq(s, 1, Len(s) - 1)) ELSE s

Trim(s) == TrimRight(TrimLeft(s))

\* ------------------------------------------------------------ job records
NewJob(id, file, gid) ==
    [id |-> id, audioFile |-> file, status |-> "pending", progress |-> 0,
     transcript |-> Undefined, error |-> Undefined, completedAt |-> Undefined,
     groupId |-> gid]

\* generateMockTranscript(filename): a fixed non-empty text embedding the name
MockTranscript(filename) ==
    <<"This is a sample transcription for the audio file", filename>>

\* error instanceof Error ? error.message : 'Unknown error occurred'
FailureMessage(e) == IF e.isError THEN e.message ELSE "Unknown error occurred"

\* mutant: the catch block records the message but leaves the status alone
ErrorJob_KeepsStatus(job, e) == [job EXCEPT !.error = Some(FailureMessage(e))]

\* mutant: the catch block sets the status but records no message
ErrorJob_NoMessage(job, e) == [job EXCEPT !.status = "error"]

\* errorJob = { ...job, status: 'error', error: <message> }
ErrorJob(job, e) == [job EXCEPT !.status = "error", !.error = Some(FailureMessage(e))]

\* mutant: the loop counts down from 100
SimProgress_CountDown(rec, p) == [rec EXCEPT !.progress = ProgressMax - p]

\* simulateTranscription, loop body: { ...updatedJob, progress }
SimProgress(rec, p) == [rec EXCEPT !.progress = p]

\* mutant: the completed record is written without its completion time
SimComplete_NoStamp(rec) ==
    [rec EXCEPT !.status = "completed", !.progress = ProgressMax,
                !.transcript = Some(MockTranscript(rec.audioFile))]

\* mutant: the record reaches 100 but is never marked completed
SimComplete_Unfinished(rec) == [rec EXCEPT !.progress = ProgressMax]

\* simulateTranscription, after the loop: the completed record
SimComplete(rec) ==
    [rec EXCEPT !.status = "completed", !.progress = ProgressMax,
                !.transcript = Some(MockTranscript(rec.audioFile)),
                !.completedAt = Some("now")]

\* mutant: the poll callback stops only on 'error'
ShouldClear_ErrorOnly(rec) == rec.status = "error"

\* the poll callback's stop condition
ShouldClear(rec) == rec.status = "completed" \/ rec.status = "error"

\* mutant: only a completed job takes the new text
WithTranscript_CompletedOnly(job, text) ==
    IF job.status = "completed" THEN [job EXCEPT !.transcript = Some(text)] ELSE job

\* { ...job, transcript }
WithTranscript(job, text) == [job EXCEPT !.transcript = Some(text)]

\* mutant: the record is rebuilt from scratch instead of spread
WithGroup_Rebuilt(job, gid) == NewJob(job.id, job.audioFile, gid)

\* { ...job, groupId }
WithGroup(job, gid) == [job EXCEPT !.groupId = gid]

\* mutant: a record that is missing is put back at the front
ReplaceJob_Upsert(prev, id, rec) ==
    IF \E i \in 1..Len(prev) : prev[i].id = id
    THEN [i \in 1..Len(prev) |-> IF prev[i].id = id THEN rec ELSE prev[i]]
    ELSE <<rec>> \o prev

\* prev.map(j => j.id === id ? rec : j)
ReplaceJob(prev, id, rec) ==
    [i \in 1..Len(prev) |-> IF prev[i].id = id THEN rec ELSE prev[i]]

IsTerminal(st) == st = "completed" \/ st = "error"

\* ------------------------------------------------------------ batch export
ExportFormats == {"txt", "md", "zip"}

\* BatchExportOptions
BatchOptions ==
    [format : ExportFormats, includeMetadata : BOOLEAN, separateFiles : BOOLEAN,
     groupName : {Undefined, Some("Standup")}]

DefaultOptions ==
    [format |-> "txt", includeMetadata |-> FALSE, separateFiles |-> FALSE,
     groupName |-> Undefined]

\* mutant: only undefined counts as missing
Truthy_NotUndefined(o) == IsSet(o)

\* JavaScript truthiness of an optional string: undefined and '' are falsy
Truthy(o) == IsSet(o) /\ o[1] # EmptyText

\* audioFilename.replace(/\.[^/.]+$/, '') on the file names of the model
StripExtension(name) == IF name = "meeting.mp3" THEN "meeting" ELSE name

\* `${nameWithoutExt}_transcript_${timestamp}.txt`
GenerateTranscriptFilename(name) ==
    <<StripExtension(name), "_transcript_", "timestamp", ".txt">>

\* one download: the payload handed to the browser
DownloadTextFile(content, filename) == [filename |-> filename, content |-> content]

\* options.groupName || 'transcripts'
GroupNameOf(options) ==
    IF IsSet(options.groupName) THEN options.groupName[1] ELSE "transcripts"

\* jobs.forEach((job, index) => { if (job.transcript) downloadTextFile(...) })
RECURSIVE SeparateFrom(_, _, _)
SeparateFrom(jobList, index, groupName) ==
    IF index > Len(jobList) THEN <<>>
    ELSE (IF Truthy(jobList[index].transcript)
          THEN <<DownloadTextFile(
                   jobList[index].transcript[1],
                   <<groupName, index>>
                       \o GenerateTranscriptFilename(jobList[index].audioFile))>>
          ELSE <<>>)
         \o SeparateFrom(jobList, index + 1, groupName)

\* mutant: the loop stops after the first job
SeparatePayloads_FirstOnly(jobList, groupName) ==
    SeparateFrom(SubSeq(jobList, 1, 1), 1, groupName)

SeparatePayloads(jobList, groupName) == SeparateFrom(jobList, 1, groupName)

\* the entries appended to `content` by downloadCombinedTranscripts; the file
\* size and duration lines are left out (the model's audioFile is its name)
RECURSIVE CombinedEntries(_, _, _)
CombinedEntries(jobList, index, options) ==
    IF index > Len(jobList) THEN <<>>
    ELSE (IF Truthy(jobList[index].transcript)
          THEN <<[index |-> index,
                  name |-> jobList[index].audioFile,
                  transcribed |-> IF options.includeMetadata
                                  THEN Some(jobList[index].completedAt)
                                  ELSE Undefined,
                  text |-> jobList[index].transcript[1]]>>
          ELSE <<>>)
         \o CombinedEntries(jobList, index + 1, options)

DownloadCombinedTranscripts(jobList, options, timestamp, groupName) ==
    <<DownloadTextFile(
        [header |-> IF options.includeMetadata
                    THEN Some([title |-> groupName, total |-> Len(jobList)])
                    ELSE Undefined,
         entries |-> CombinedEntries(jobList, 1, options)],
        <<groupName, "_batch_transcripts_", timestamp, options.format>>)>>

\* downloadBatchTranscripts: the payloads it hands to the browser, in order
BatchPayloads(jobList, options) ==
    IF Len(jobList) = 0 THEN <<>>
    ELSE IF options.format = "zip"
         THEN DownloadCombinedTranscripts(jobList, options, "timestamp",
                                          GroupNameOf(options))
         ELSE IF options.separateFiles
              THEN SeparatePayloads(jobList, GroupNameOf(options))
              ELSE DownloadCombinedTranscripts(jobList, options, "timestamp",
                                               GroupNameOf(options))

\* job records a caller can hold: completed, completed and edited to the empty
\* string, pending, failed
ExportJobKinds(id) ==
    LET new == NewJob(id, "meeting.mp3", Undefined)
    IN {SimComplete(new), WithTranscript(SimComplete(new), EmptyText), new,
        ErrorJob(new, [isError |-> TRUE, message |-> "Network down"])}

ExportLists ==
    UNION {{l \in [1..n -> UNION {ExportJobKinds(i) : i \in 1..n}] :
              \A i \in 1..n : l[i] \in ExportJobKinds(i)} : n \in 0..MaxExport}

DownloadBatchTranscripts(jobList, options) ==
    /\ exported' = [jobs |-> jobList, options |-> options,
                    payloads |-> BatchPayloads(jobList, options)]
    /\ UNCHANGED <<jobVars, groups, nextGroupId, uiVars>>

ExportNext ==
    \E l \in ExportLists, o \in BatchOptions : DownloadBatchTranscripts(l, o)

Init ==
    /\ jobs = <<>>
    /\ isLoading = FALSE
    /\ closureJob = <<>>
    /\ svcJobs = <<>>
    /\ simPc = [j \in JobIds |-> [at |-> "none", progress |-> 0]]
    /\ pollTimer = [j \in JobIds |-> "none"]
    /\ nextJobId = 1
    /\ nEdits = 0
    /\ groups = <<>>
    /\ nextGroupId = 1
    /\ exported = [jobs |-> <<>>, options |-> DefaultOptions, payloads |-> <<>>]
    /\ selectedJob = Undefined
    /\ audioFiles = <<>>
    /\ isProcessing = FALSE
    /\ ingest = Undefined
    /\ returned = [files |-> <<>>, result |-> <<>>]
    /\ urls = <<>>
    /\ nextAudioId = 1

\* ------------------------------------------------------------ job registry
\* useTranscription.startTranscription up to its await, including the
\* synchronous part of TranscriptionService.startTranscription.
StartTranscription(file, gid) ==
    /\ nextJobId <= MaxJobs
    /\ LET id == nextJobId
           job == NewJob(id, file, gid)
       IN /\ jobs' = <<job>> \o jobs
          /\ isLoading' = TRUE
          /\ closureJob' = Put(closureJob, id, job)
          /\ svcJobs' = Put(svcJobs, id,
                            [job EXCEPT !.status = "processing", !.progress = 0])
          /\ simPc' = [simPc EXCEPT ![id] = [at |-> "loop", progress |-> 0]]
          /\ nextJobId' = id + 1
    /\ UNCHANGED <<pollTimer, nEdits, groups, nextGroupId, exported, uiVars>>

\* One timer expiry inside simulateTranscription.  The expiry that ends the
\* loop (progress = 100) also writes the completed record and resolves the
\* promise awaited by the hook, whose continuation then creates the polling
\* interval: all of it is one chain of microtasks.
ProviderStep(j) ==
    /\ simPc[j].at = "loop"
    /\ LET p == simPc[j].progress
           stepped == IF j \in DOMAIN svcJobs
                      THEN Put(svcJobs, j, SimProgress(svcJobs[j], p))
                      ELSE svcJobs
       IN IF p + ProgressStep <= ProgressMax
          THEN /\ svcJobs' = stepped
               /\ simPc' = [simPc EXCEPT ![j].progress = p + ProgressStep]
               /\ UNCHANGED pollTimer
          ELSE /\ svcJobs' = IF j \in DOMAIN stepped
                             THEN Put(stepped, j, SimComplete(stepped[j]))
                             ELSE stepped
               /\ simPc' = [simPc EXCEPT ![j] = [at |-> "done",
                                                 progress |-> p + ProgressStep]]
               /\ pollTimer' = [pollTimer EXCEPT ![j] = "active"]
    /\ UNCHANGED <<jobs, isLoading, closureJob, nextJobId, nEdits, groups, nextGroupId, exported, uiVars>>

\* The awaited provider call rejects with e: the catch block of the hook.
\* The mock provider itself never rejects; the rejection is an input of the
\* hook, taken while the request is outstanding and before the provider's
\* first simulated step (the initial request fails).
ProviderReject(j, e) ==
    /\ simPc[j].at = "loop"
    /\ simPc[j].progress = 0
    /\ simPc' = [simPc EXCEPT ![j].at = "rejected"]
    /\ jobs' = ReplaceJob(jobs, closureJob[j].id, ErrorJob(closureJob[j], e))
    /\ isLoading' = FALSE
    /\ UNCHANGED <<closureJob, svcJobs, pollTimer, nextJobId, nEdits, groups,
                   nextGroupId, exported, uiVars>>

\* One firing of the setInterval callback of job j.
PollTick(j) ==
    /\ pollTimer[j] = "active"
    /\ IF j \in DOMAIN svcJobs
          THEN /\ jobs' = ReplaceJob(jobs, closureJob[j].id, svcJobs[j])
               /\ IF ShouldClear(svcJobs[j])
                  THEN /\ pollTimer' = [pollTimer EXCEPT ![j] = "cleared"]
                       /\ isLoading' = FALSE
                  ELSE UNCHANGED <<pollTimer, isLoading>>
          ELSE UNCHANGED <<jobs, pollTimer, isLoading>>
    /\ UNCHANGED <<closureJob, svcJobs, simPc, nextJobId, nEdits, groups, nextGroupId, exported, uiVars>>

UpdateTranscript(jobId, transcript) ==
    /\ nEdits < MaxEdits
    /\ nEdits' = nEdits + 1
    /\ jobs' = [i \in 1..Len(jobs) |->
                  IF jobs[i].id = jobId THEN WithTranscript(jobs[i], transcript)
                  ELSE jobs[i]]
    /\ UNCHANGED <<isLoading, closureJob, svcJobs, simPc, pollTimer, nextJobId,
                   groups, nextGroupId, exported, uiVars>>

RemoveJob(jobId) ==
    /\ nEdits < MaxEdits
    /\ nEdits' = nEdits + 1
    /\ jobs' = SelectSeq(jobs, LAMBDA job : job.id # jobId)
    /\ UNCHANGED <<isLoading, closureJob, svcJobs, simPc, pollTimer, nextJobId,
                   groups, nextGroupId, exported, uiVars>>

UpdateJobGroup(jobId, groupId) ==
    /\ nEdits < MaxEdits
    /\ nEdits' = nEdits + 1
    /\ jobs' = [i \in 1..Len(jobs) |->
                  IF jobs[i].id = jobId THEN WithGroup(jobs[i], groupId)
                  ELSE jobs[i]]
    /\ UNCHANGED <<isLoading, closureJob, svcJobs, simPc, pollTimer, nextJobId,
                   groups, nextGroupId, exported, uiVars>>

\* ---------------------------------------------------------- group registry
\* mutant: the palette index is off by one
ColorFor_OffByOne(n) == GROUP_COLORS[(n + 1) % PaletteSize]

\* GROUP_COLORS[groups.length % GROUP_COLORS.length]
ColorFor(n) == GROUP_COLORS[n % PaletteSize]

NewGroup(id, name, description, n) ==
    [id |-> id, name |-> name, description |-> description,
     color |-> ColorFor(n), jobIds |-> <<>>]

\* { ...group, ...updates }: updates is a record holding the supplied fields
Merge(group, updates) ==
    [f \in DOMAIN group |-> IF f \in DOMAIN updates THEN updates[f] ELSE group[f]]

\* mutant: the other groups are left as they are
MoveJob_NoStrip(group, groupId, jobId) ==
    IF group.id = groupId
    THEN [group EXCEPT !.jobIds = Append(Without(@, jobId), jobId)]
    ELSE group

\* mutant: the job id is put first instead of last
MoveJob_Prepend(group, groupId, jobId) ==
    IF group.id = groupId
    THEN [group EXCEPT !.jobIds = <<jobId>> \o Without(@, jobId)]
    ELSE [group EXCEPT !.jobIds = Without(@, jobId)]

\* mutant: the job id is appended without being filtered out first
MoveJob_NoDedupe(group, groupId, jobId) ==
    IF group.id = groupId
    THEN [group EXCEPT !.jobIds = Append(@, jobId)]
    ELSE [group EXCEPT !.jobIds = Without(@, jobId)]

\* the mapping function of addJobToGroup
MoveJob(group, groupId, jobId) ==
    IF group.id = groupId
    THEN [group EXCEPT !.jobIds = Append(Without(@, jobId), jobId)]
    ELSE [group EXCEPT !.jobIds = Without(@, jobId)]

\* mutant: a group holding the job id loses its last member instead
DropJob_LastMember(group, jobId) ==
    IF jobId \in Range(group.jobIds)
    THEN [group EXCEPT !.jobIds = SubSeq(@, 1, Len(@) - 1)]
    ELSE group

\* the mapping function of removeJobFromGroup
DropJob(group, jobId) == [group EXCEPT !.jobIds = Without(@, jobId)]

\* createGroup reads groups.length from the render in which the callback was
\* made; every call is its own event, so that is the current length.
CreateGroup(name, description) ==
    /\ groups' = Append(groups,
                        NewGroup(nextGroupId, name, description, Len(groups)))
    /\ nextGroupId' = nextGroupId + 1
    /\ UNCHANGED <<jobVars, exported, uiVars>>

UpdateGroup(groupId, updates) ==
    /\ groups' = [i \in 1..Len(groups) |->
                    IF groups[i].id = groupId THEN Merge(groups[i], updates)
                    ELSE groups[i]]
    /\ UNCHANGED <<nextGroupId, jobVars, exported, uiVars>>

\* mutant: the member jobs are deleted with the group
DeleteGroup_Cascade(groupId) ==
    /\ groups' = SelectSeq(groups, LAMBDA group : group.id # groupId)
    /\ jobs' = SelectSeq(jobs, LAMBDA job : job.groupId # Some(groupId))
    /\ UNCHANGED <<isLoading, closureJob, svcJobs, simPc, pollTimer, nextJobId,
                   nEdits, nextGroupId, exported, uiVars>>

DeleteGroup(groupId) ==
    /\ groups' = SelectSeq(groups, LAMBDA group : group.id # groupId)
    /\ UNCHANGED <<nextGroupId, jobVars, exported, uiVars>>

AddJobToGroup(groupId, jobId) ==
    /\ groups' = [i \in 1..Len(groups) |-> MoveJob(groups[i], groupId, jobId)]
    /\ UNCHANGED <<nextGroupId, jobVars, exported, uiVars>>

RemoveJobFromGroup(jobId) ==
    /\ groups' = [i \in 1..Len(groups) |-> DropJob(groups[i], jobId)]
    /\ UNCHANGED <<nextGroupId, jobVars, exported, uiVars>>

\* updates that touch only the descriptive fields name and description
NameUpdates ==
    {[name |-> n] : n \in Names} \cup {[description |-> d] : d \in Descriptions}
    \cup {[name |-> n, description |-> d] : n \in Names, d \in Descriptions}

\* updates the type Partial<TranscriptionGroup> also admits: jobIds and id
MembershipUpdates == {[jobIds |-> <<>>], [jobIds |-> <<1>>], [id |-> 1]}

GroupIds == 1..MaxGroups

GroupNext ==
    \/ \E n \in Names, d \in Descriptions :
          nextGroupId <= MaxGroups /\ CreateGroup(n, d)
    \/ \E g \in GroupIds, u \in NameUpdates : UpdateGroup(g, u)
    \/ \E g \in GroupIds : DeleteGroup(g)
    \/ \E g \in GroupIds, j \in JobIds : AddJobToGroup(g, j)
    \/ \E j \in JobIds : RemoveJobFromGroup(j)

\* the group registry with every updates argument updateGroup accepts
GroupUpdateNext ==
    \/ nextGroupId <= MaxGroups /\ CreateGroup(NameNotes, Undefined)
    \/ \E g \in GroupIds, u \in NameUpdates \cup MembershipUpdates :
          UpdateGroup(g, u)
    \/ \E g \in GroupIds, j \in JobIds : AddJobToGroup(g, j)

\* App.handleAddJobToGroup: addJobToGroup then updateJobGroup, one event
HandleAddJobToGroup(groupId, jobId) ==
    /\ groups' = [i \in 1..Len(groups) |-> MoveJob(groups[i], groupId, jobId)]
    /\ jobs' = [i \in 1..Len(jobs) |->
                  IF jobs[i].id = jobId THEN WithGroup(jobs[i], Some(groupId))
                  ELSE jobs[i]]
    /\ UNCHANGED <<isLoading, closureJob, svcJobs, simPc, pollTimer, nextJobId,
                   nEdits, nextGroupId, exported, uiVars>>

\* App.handleRemoveJobFromGroup: removeJobFromGroup then updateJobGroup
HandleRemoveJobFromGroup(jobId) ==
    /\ groups' = [i \in 1..Len(groups) |-> DropJob(groups[i], jobId)]
    /\ jobs' = [i \in 1..Len(jobs) |->
                  IF jobs[i].id = jobId THEN WithGroup(jobs[i], Undefined)
                  ELSE jobs[i]]
    /\ UNCHANGED <<isLoading, closureJob, svcJobs, simPc, pollTimer, nextJobId,
                   nEdits, nextGroupId, exported, uiVars>>

\* the group ids and job ids the App's views offer: those on screen
ShownGroupIds == {groups[i].id : i \in 1..Len(groups)}
ShownJobIds == {jobs[i].id : i \in 1..Len(jobs)}

\* The App: both registries driven through its handlers and the timers.
AppNext ==
    \/ \E f \in FileNames, g \in {Undefined} \cup {Some(x) : x \in ShownGroupIds} :
          nextJobId <= MaxAppJobs /\ StartTranscription(f, g)
    \/ \E j \in 1..MaxAppJobs : ProviderStep(j)
    \/ \E j \in 1..MaxAppJobs : PollTick(j)
    \/ nextGroupId <= MaxAppGroups /\ CreateGroup(NameNotes, Undefined)
    \/ \E g \in ShownGroupIds : DeleteGroup(g)
    \/ \E g \in ShownGroupIds, j \in ShownJobIds : HandleAddJobToGroup(g, j)
    \/ \E j \in ShownJobIds : HandleRemoveJobFromGroup(j)

\* GroupManager.getGroupJobs: the registry filtered by membership
GetGroupJobs(group) ==
    SelectSeq(jobs, LAMBDA job : job.id \in Range(group.jobIds))

\* GroupManager.getCompletedGroupJobs: the list handed to the batch export
GetCompletedGroupJobs(group) ==
    SelectSeq(GetGroupJobs(group),
              LAMBDA job : job.status = "completed" /\ Truthy(job.transcript))

\* The group manager's view: jobs started without a group, run by the mock
\* provider, and moved between groups through the App's handlers.
DisplayNext ==
    \/ \E f \in FileNames :
          nextJobId <= MaxShownJobs /\ StartTranscription(f, Undefined)
    \/ \E j \in 1..MaxShownJobs : ProviderStep(j)
    \/ \E j \in 1..MaxShownJobs : PollTick(j)
    \/ nextGroupId <= MaxAppGroups /\ CreateGroup(NameNotes, Undefined)
    \/ \E g \in ShownGroupIds, j \in ShownJobIds : HandleAddJobToGroup(g, j)
    \/ \E j \in ShownJobIds : HandleRemoveJobFromGroup(j)

\* App.handleJobSelect: the clicked record of the job list becomes selectedJob
HandleJobSelect(jobId) ==
    /\ \E i \in 1..Len(jobs) : jobs[i].id = jobId /\ selectedJob' = Some(jobs[i])
    /\ UNCHANGED <<jobVars, groupVars, exported, audioVars>>

\* App.handleTranscriptUpdate: updateTranscript, then the selected copy too
HandleTranscriptUpdate(jobId, transcript) ==
    /\ jobs' = [i \in 1..Len(jobs) |->
                  IF jobs[i].id = jobId THEN WithTranscript(jobs[i], transcript)
                  ELSE jobs[i]]
    /\ selectedJob' = IF IsSet(selectedJob) /\ selectedJob[1].id = jobId
                      THEN Some(WithTranscript(selectedJob[1], transcript))
                      ELSE selectedJob
    /\ UNCHANGED <<isLoading, closureJob, svcJobs, simPc, pollTimer, nextJobId,
                   nEdits, groupVars, exported, audioVars>>

\* The transcribe tab: jobs run by the mock provider, selected and edited.
EditorNext ==
    \/ \E f \in FileNames :
          nextJobId <= MaxShownJobs /\ StartTranscription(f, Undefined)
    \/ \E j \in 1..MaxShownJobs : ProviderStep(j)
    \/ \E j \in 1..MaxShownJobs : PollTick(j)
    \/ \E j \in ShownJobIds : HandleJobSelect(j)
    \/ \E j \in ShownJobIds, t \in Texts : HandleTranscriptUpdate(j, t)

\* ------------------------------------------------------------- ingestion
\* A File: its name as dot-separated parts, and its MIME type.
Mp3File == [name |-> <<"a", "mp3">>, type |-> "audio/mpeg"]
WavFile == [name |-> <<"talk", "WAV">>, type |-> ""]
TextFile == [name |-> <<"notes", "txt">>, type |-> "text/plain"]
Files == {Mp3File, WavFile, TextFile}

AudioTypes == {"audio/mpeg", "audio/mp3", "audio/wav", "audio/m4a", "audio/aac",
               "audio/flac", "audio/ogg"}
AudioExtensions == {"mp3", "wav", "m4a", "aac", "flac", "ogg"}

\* the i flag of the regular expression, on the extensions of the model
Lower(part) ==
    CASE part = "WAV" -> "wav" [] part = "MP3" -> "mp3" [] OTHER -> part

\* /\.(mp3|wav|m4a|aac|flac|ogg)$/i.test(file.name)
HasAudioExtension(name) ==
    Len(name) >= 2 /\ Lower(name[Len(name)]) \in AudioExtensions

IsAudioFile(file) == file.type \in AudioTypes \/ HasAudioExtension(file.name)

\* URL.createObjectURL: a fresh URL, live until revoked
CreateObjectURL(all, by) == Append(all, [by |-> by, state |-> "live"])
RevokeObjectURL(all, u) == [all EXCEPT ![u].state = "revoked"]

\* mutant: a file whose duration could not be read is left out
Ingested_SkipWithoutDuration(valid, file, id, duration, url) ==
    IF IsSet(duration)
    THEN Append(valid, [file |-> file, id |-> id, name |-> file.name,
                        duration |-> duration, url |-> Some(url)])
    ELSE valid

\* validAudioFiles.push(audioFile), in the try block and in the catch block
Ingested(valid, file, id, duration, url) ==
    Append(valid, [file |-> file, id |-> id, name |-> file.name,
                   duration |-> duration, url |-> Some(url)])

\* the for loop up to its next await: files failing isAudioFile are passed over
RECURSIVE NextAudio(_, _)
NextAudio(files, index) ==
    IF index > Len(files) THEN index
    ELSE IF IsAudioFile(files[index]) THEN index
         ELSE NextAudio(files, index + 1)

\* processFiles running from position `index` to its next await or to its end
ProcessFrom(files, index, valid, allUrls) ==
    LET at == NextAudio(files, index)
    IN IF at <= Len(files)
       THEN \* getAudioDuration(file) creates its URL and the call is awaited
            /\ urls' = CreateObjectURL(allUrls, "duration")
            /\ ingest' = Some([files |-> files, index |-> at, valid |-> valid])
            /\ isProcessing' = TRUE
            /\ UNCHANGED <<audioFiles, returned>>
       ELSE /\ urls' = allUrls
            /\ audioFiles' = audioFiles \o valid
            /\ isProcessing' = FALSE
            /\ returned' = [files |-> files, result |-> valid]
            /\ ingest' = Undefined

CountAudio(files) == Cardinality({i \in 1..Len(files) : IsAudioFile(files[i])})

\* processFiles(files) up to its first await
ProcessFiles(files) ==
    /\ ingest = Undefined
    /\ nextAudioId + CountAudio(files) <= MaxAudio + 1
    /\ ProcessFrom(files, 1, <<>>, urls)
    /\ UNCHANGED <<nextAudioId, jobVars, groupVars, exported, editorVars>>

\* The awaited getAudioDuration settles: with a duration (loadedmetadata) or
\* with an error.  The record is built either way and the loop goes on.
DurationSettles(duration) ==
    /\ ingest # Undefined
    /\ LET call == ingest[1]
           withUrl == CreateObjectURL(urls, "record")
           valid == Ingested(call.valid, call.files[call.index], nextAudioId,
                             duration, Len(withUrl))
       IN ProcessFrom(call.files, call.index + 1, valid, withUrl)
    /\ nextAudioId' = nextAudioId + 1
    /\ UNCHANGED <<jobVars, groupVars, exported, editorVars>>

\* the URLs a list of records holds
HeldUrls(records) ==
    {records[i].url[1] : i \in {k \in 1..Len(records) : IsSet(records[k].url)}}

RemoveAudioFile(id) ==
    /\ urls' = [u \in 1..Len(urls) |->
                  IF \E i \in 1..Len(audioFiles) :
                        audioFiles[i].id = id /\ audioFiles[i].url = Some(u)
                  THEN RevokeObjectURL(urls, u)[u] ELSE urls[u]]
    /\ audioFiles' = SelectSeq(audioFiles, LAMBDA f : f.id # id)
    /\ UNCHANGED <<isProcessing, ingest, returned, nextAudioId, jobVars, groupVars,
                   exported, editorVars>>

ClearAllFiles ==
    /\ urls' = [u \in 1..Len(urls) |->
                  IF u \in HeldUrls(audioFiles)
                  THEN RevokeObjectURL(urls, u)[u] ELSE urls[u]]
    /\ audioFiles' = <<>>
    /\ UNCHANGED <<isProcessing, ingest, returned, nextAudioId, jobVars, groupVars,
                   exported, editorVars>>

\* the batches a caller may hand over
Batches == UNION {[1..n -> Files] : n \in 0..MaxBatch}

AudioNext ==
    \/ \E files \in Batches : ProcessFiles(files)
    \/ \E d \in {Undefined, Some(60)} : DurationSettles(d)
    \/ \E id \in 1..MaxAudio : RemoveAudioFile(id)
    \/ ClearAllFiles

\* the palette alone: groups are created and deleted, nothing else
ColorNext ==
    \/ nextGroupId <= MaxCreated /\ CreateGroup(NameNotes, Undefined)
    \/ \E g \in 1..MaxCreated : DeleteGroup(g)

\* The job registry on its own: jobs are started with options = {}.
JobNext ==
    \/ \E f \in FileNames : StartTranscription(f, Undefined)
    \/ \E j \in JobIds : ProviderStep(j)
    \/ \E j \in JobIds, e \in Failures : ProviderReject(j, e)
    \/ \E j \in JobIds : PollTick(j)
    \/ \E j \in JobIds, t \in Texts : UpdateTranscript(j, t)
    \/ \E j \in JobIds : RemoveJob(j)
    \/ \E j \in JobIds, g \in GroupRefs : UpdateJobGroup(j, g)

\* The job registry with the mock provider, which never rejects.
MockNext ==
    \/ \E f \in FileNames : StartTranscription(f, Undefined)
    \/ \E j \in JobIds : ProviderStep(j)
    \/ \E j \in JobIds : PollTick(j)
    \/ \E j \in JobIds : RemoveJob(j)

\* setTimeout and setInterval callbacks that are due do run
TimersFair ==
    \A j \in JobIds : WF_vars(ProviderStep(j)) /\ WF_vars(PollTick(j))

Next == JobNext \/ GroupNext

Spec == Init /\ [][Next]_vars
SpecJobs == Init /\ [][JobNext]_vars
SpecGroups == Init /\ [][GroupNext]_vars
SpecColors == Init /\ [][ColorNext]_vars
SpecGroupUpdates == Init /\ [][GroupUpdateNext]_vars
SpecMockFair == Init /\ [][MockNext]_vars /\ TimersFair
SpecDisplay == Init /\ [][DisplayNext]_vars
SpecAudio == Init /\ [][AudioNext]_vars
SpecEditor == Init /\ [][EditorNext]_vars
SpecApp == Init /\ [][AppNext]_vars
SpecExport == Init /\ [][ExportNext]_vars

\* ================================================================ claims
InRegistry(j) == \E i \in 1..Len(jobs) : jobs[i].id = j
RegJob(j) == jobs[CHOOSE i \in 1..Len(jobs) : jobs[i].id = j]
GroupExists(g) == \E i \in 1..Len(groups) : groups[i].id = g
GroupsHolding(j) == {i \in 1..Len(groups) : j \in Range(groups[i].jobIds)}
Occurrences(s, v) == Cardinality({i \in 1..Len(s) : s[i] = v})
Rank(st) == CASE st = "pending" -> 0 [] st = "processing" -> 1 [] OTHER -> 2

\* C1: under create/delete/add/remove and name/description-only updates,
\* every job id occurs in the jobIds of at most one group.
C1_AtMostOneGroup == \A j \in JobIds : Cardinality(GroupsHolding(j)) <= 1

\* two groups exist, one of them holding both jobs, job 1 added last
C1_Witness ==
    /\ Len(groups) >= 2
    /\ \E i \in 1..Len(groups) : groups[i].jobIds = <<2, 1>>

\* C2: after addJobToGroup(g, j) on an existing group g, j is the last element
\* of g's jobIds, occurs there once and in no other group, and the remaining
\* members of every group keep their relative order.
C2_AddPlacesJobLast ==
    [][\A g \in GroupIds, j \in JobIds :
         (AddJobToGroup(g, j) /\ GroupExists(g)) =>
            /\ Len(groups') = Len(groups)
            /\ \A i \in 1..Len(groups) :
                 /\ groups'[i].id = groups[i].id
                 /\ Without(groups'[i].jobIds, j) = Without(groups[i].jobIds, j)
                 /\ IF groups[i].id = g
                    THEN /\ groups'[i].jobIds # <<>>
                         /\ groups'[i].jobIds[Len(groups'[i].jobIds)] = j
                         /\ Occurrences(groups'[i].jobIds, j) = 1
                    ELSE Occurrences(groups'[i].jobIds, j) = 0]_vars

\* "Standup" holds only job 2 and "Notes" holds job 1
C2_Witness ==
    /\ Len(groups) >= 2
    /\ groups[1].jobIds = <<2>>
    /\ groups[2].jobIds = <<1>>

\* C3: a registry record's status only moves forward along
\* pending -> processing -> {completed, error}, and a terminal status never changes.
C3_StatusForwardOnly ==
    [][\A j \in JobIds :
         (InRegistry(j) /\ InRegistry(j)') =>
            /\ Rank(RegJob(j)'.status) >= Rank(RegJob(j).status)
            /\ IsTerminal(RegJob(j).status) => RegJob(j)'.status = RegJob(j).status]_vars

\* a completed job and a failed job, both edited by the caller
C3_Witness ==
    /\ nEdits >= 2
    /\ \E i, k \in 1..Len(jobs) :
         /\ jobs[i].status = "completed" /\ IsSet(jobs[i].groupId)
         /\ jobs[k].status = "error" /\ IsSet(jobs[k].groupId)

\* C4: for every registry record, status = completed if and only if the
\* transcript is set, progress = 100 and completedAt is set.
C4_CompletedIffAllSet ==
    \A i \in 1..Len(jobs) :
        jobs[i].status = "completed" <=>
            (/\ IsSet(jobs[i].transcript)
             /\ jobs[i].progress = ProgressMax
             /\ IsSet(jobs[i].completedAt))

\* a completed job beside a pending job whose transcript the caller has set
C4_Witness ==
    \E i, k \in 1..Len(jobs) :
        /\ jobs[i].status = "completed"
        /\ jobs[k].status = "pending" /\ IsSet(jobs[k].transcript)

\* C5: the registry record is pending, then processing while the provider
\* works, then completed: a record becomes completed only from processing.
C5_ProcessingBeforeCompleted ==
    [][\A j \in JobIds :
         (/\ InRegistry(j) /\ InRegistry(j)'
          /\ RegJob(j).status # "completed"
          /\ RegJob(j)'.status = "completed") => RegJob(j).status = "processing"]_vars

\* C6: the caller sees progress rise through intermediate values before the
\* job is completed: a record does not become completed from progress 0.
C6_IntermediateProgressSeen ==
    [][\A j \in JobIds :
         (/\ InRegistry(j) /\ InRegistry(j)'
          /\ RegJob(j).status # "completed"
          /\ RegJob(j)'.status = "completed") => RegJob(j).progress > 0]_vars

\* C7: a tick clears the timer exactly when the provider's record is terminal,
\* nothing but a tick of that job clears it, and a cleared timer stays cleared.
C7_TimerClearedOnTerminalTick ==
    [][\A j \in JobIds :
         /\ PollTick(j) =>
              (pollTimer'[j] = "cleared" <=>
                 (j \in DOMAIN svcJobs /\ IsTerminal(svcJobs[j].status)))
         /\ (pollTimer'[j] # pollTimer[j] /\ pollTimer[j] = "active") => PollTick(j)
         /\ pollTimer[j] = "cleared" => pollTimer'[j] = "cleared"]_vars

\* the timer of a job removed from the registry ran on to its terminal tick
C7_Witness ==
    \E j \in JobIds : pollTimer[j] = "cleared" /\ ~InRegistry(j) /\ nEdits = 1

\* C8: when the provider call fails the record goes from pending to error
\* with the failure's message, no timer exists for the job, and the record
\* stays in error.
C8_StartFailureIsTerminal ==
    [][\A j \in JobIds :
         /\ (simPc[j].at # "rejected" /\ simPc'[j].at = "rejected" /\ InRegistry(j)) =>
              /\ RegJob(j).status = "pending"
              /\ RegJob(j)'.status = "error"
              /\ RegJob(j)'.error \in {Some(FailureMessage(e)) : e \in Failures}
         /\ simPc'[j].at = "rejected" =>
              /\ pollTimer'[j] = "none"
              /\ InRegistry(j)' => RegJob(j)'.status = "error"]_vars

\* a failed start, reported with the Error's message, beside a completed job
C8_Witness ==
    \E i, k \in 1..Len(jobs) :
        /\ simPc[jobs[i].id].at = "rejected"
        /\ jobs[i].status = "error" /\ jobs[i].error = Some("Network down")
        /\ jobs[k].status = "completed"

\* C9: every group in the registry has a name that is non-empty after trimming
\* (createGroup rejects a name that trims to the empty string).
C9_NamesNonEmptyAfterTrim == \A i \in 1..Len(groups) : Trim(groups[i].name) # <<>>

\* the last group of the registry is the one created by the step
CreatedBy(old, new) == Len(new) = Len(old) + 1 /\ SubSeq(new, 1, Len(old)) = old

\* C10 as stated: each createGroup takes GROUP_COLORS[n mod 8] for the current
\* group count n, and two groups created one after the other differ in color.
C10_ConsecutiveColorsDiffer ==
    [][/\ CreatedBy(groups, groups') =>
            groups'[Len(groups')].color = GROUP_COLORS[Len(groups) % PaletteSize]
       /\ \A a, b \in 1..Len(groups') :
            groups'[b].id = groups'[a].id + 1 => groups'[b].color # groups'[a].color]_vars

\* C10 amended: each createGroup takes GROUP_COLORS[n mod 8] for the current
\* group count n; the new group differs in color from the previously created
\* one whenever that group is still last and was itself created at count n - 1
\* (which is the case when no group was deleted between the two creations).
C10_ColorByCurrentCount ==
    [][CreatedBy(groups, groups') =>
         LET n == Len(groups)
             new == groups'[n + 1]
         IN /\ new.color = GROUP_COLORS[n % PaletteSize]
            /\ (/\ n >= 1
                /\ groups[n].id + 1 = new.id
                /\ groups[n].color = GROUP_COLORS[(n - 1) % PaletteSize])
               => new.color # groups[n].color]_vars

\* nine groups side by side: the ninth wrapped around to the first color
C10_Witness ==
    /\ Len(groups) = PaletteSize + 1
    /\ groups[PaletteSize + 1].color = GROUP_COLORS[0]
    /\ groups[PaletteSize].color = GROUP_COLORS[PaletteSize - 1]

\* "has a transcript" as the export reads it: if (job.transcript)
AllCompletedWithTranscript(l) ==
    \A i \in 1..Len(l) : l[i].status = "completed" /\ Truthy(l[i].transcript)

\* C11 as stated: with separateFiles = true, N completed jobs that each have
\* a transcript give exactly N payloads for every format; no job, no payload.
C11_SeparateFilesGivesN ==
    (exported.options.separateFiles /\ AllCompletedWithTranscript(exported.jobs))
        => Len(exported.payloads) = Len(exported.jobs)

\* C11 amended: that holds for the formats txt and md; format zip gives one
\* combined payload for any non-empty list.
C11_SeparateFilesGivesNUnlessZip ==
    /\ (/\ exported.options.separateFiles
        /\ exported.options.format # "zip"
        /\ AllCompletedWithTranscript(exported.jobs))
       => Len(exported.payloads) = Len(exported.jobs)
    /\ (exported.options.format = "zip" /\ exported.jobs # <<>>)
       => Len(exported.payloads) = 1
    /\ exported.jobs = <<>> => exported.payloads = <<>>

\* two completed jobs exported as two separate md files
C11_Witness ==
    /\ exported.options.separateFiles /\ exported.options.format = "md"
    /\ Len(exported.jobs) = 2
    /\ AllCompletedWithTranscript(exported.jobs)
    /\ Len(exported.payloads) = 2

\* C12: removeJobFromGroup(j) leaves j in no group's jobIds and touches nothing
\* else; applying it again to the result changes nothing; and when j is in no
\* group the registry stays as it is.
C12_RemoveIsIdempotent ==
    [][\A j \in JobIds :
         RemoveJobFromGroup(j) =>
            /\ GroupsHolding(j)' = {}
            /\ Len(groups') = Len(groups)
            /\ \A i \in 1..Len(groups) :
                 /\ groups'[i] = [groups[i] EXCEPT !.jobIds = groups'[i].jobIds]
                 /\ Without(groups'[i].jobIds, j) = Without(groups[i].jobIds, j)
            /\ [i \in 1..Len(groups') |-> DropJob(groups'[i], j)] = groups'
            /\ (GroupsHolding(j) = {} => groups' = groups)]_vars

\* job 1 is the second member of a group beside an empty group
C12_Witness ==
    \E i, k \in 1..Len(groups) :
        groups[i].jobIds = <<2, 1>> /\ groups[k].jobIds = <<>>

\* C13: under create, delete, add and remove, no group's jobIds holds the same
\* job id twice.
C13_NoDuplicateMembers ==
    \A i \in 1..Len(groups) : \A j \in JobIds :
        Occurrences(groups[i].jobIds, j) <= 1

\* one group holds two jobs, job 2 added last
C13_Witness ==
    \E i \in 1..Len(groups) : groups[i].jobIds = <<1, 2>>

\* C14: updateGroup leaves the jobIds and the id of every group as they were,
\* for every updates argument.
C14_UpdateKeepsMembership ==
    [][\A g \in GroupIds, u \in NameUpdates \cup MembershipUpdates :
         UpdateGroup(g, u) =>
            /\ Len(groups') = Len(groups)
            /\ \A i \in 1..Len(groups) :
                 /\ groups'[i].jobIds = groups[i].jobIds
                 /\ groups'[i].id = groups[i].id]_vars

\* C15: updateGroup, deleteGroup and addJobToGroup with a groupId that names
\* no group leave the group registry unchanged.
C15_UnknownGroupIsNoOp ==
    [][\A g \in GroupIds :
         (/\ ~GroupExists(g)
          /\ \/ \E u \in NameUpdates : UpdateGroup(g, u)
             \/ DeleteGroup(g)
             \/ \E j \in JobIds : AddJobToGroup(g, j))
         => groups' = groups]_vars

GroupIdsOf(gs) == {gs[i].id : i \in 1..Len(gs)}

\* C16: a step that deletes group g removes that group only: every other
\* group stays, unchanged and in the same order, and the job registry is the
\* same before and after.
C16_DeleteRemovesOnlyTheGroup ==
    [][\A g \in GroupIdsOf(groups) \ GroupIdsOf(groups') :
         /\ GroupIdsOf(groups') = GroupIdsOf(groups) \ {g}
         /\ groups' = SelectSeq(groups, LAMBDA group : group.id \in GroupIdsOf(groups'))
         /\ jobs' = jobs]_vars

\* a deleted group: job 1 still carries groupId 1 and no group has id 1, while
\* the other group is still there
C16_Witness ==
    /\ \E i \in 1..Len(jobs) : jobs[i].groupId = Some(1)
    /\ 1 \notin GroupIdsOf(groups)
    /\ 2 \in GroupIdsOf(groups)

ProgressValues == {k * ProgressStep : k \in 0..(ProgressMax \div ProgressStep)}
ProgressWellFormed(rec) ==
    /\ rec.progress \in ProgressValues
    /\ rec.status = "completed" => rec.progress = ProgressMax

\* C17: the provider's record of a job has a progress among 0, 10, ..., 100,
\* equal to 100 when the status is completed, and never lower after a step than
\* before it; the registry records, being copies of it, have the same.
C17_ProviderProgressMonotone ==
    /\ [](/\ \A j \in DOMAIN svcJobs : ProgressWellFormed(svcJobs[j])
          /\ \A i \in 1..Len(jobs) : ProgressWellFormed(jobs[i]))
    /\ [][/\ \A j \in DOMAIN svcJobs :
               svcJobs'[j].progress >= svcJobs[j].progress
          /\ \A j \in JobIds :
               (InRegistry(j) /\ InRegistry(j)') =>
                   RegJob(j)'.progress >= RegJob(j).progress]_vars

\* the provider is half way through one job and another job's completed
\* record has been copied into the registry
C17_Witness ==
    /\ \E j \in DOMAIN svcJobs :
         svcJobs[j].status = "processing" /\ svcJobs[j].progress = 5 * ProgressStep
    /\ \E i \in 1..Len(jobs) :
         jobs[i].status = "completed" /\ jobs[i].progress = ProgressMax

\* C18: updateTranscript(jobId, text) sets the transcript of the job with that
\* id to text, whatever its status, and changes no other field and no other
\* job; with an id not in the registry the registry stays as it is.
C18_UpdateTranscriptFrame ==
    [][\A j \in JobIds, t \in Texts :
         UpdateTranscript(j, t) =>
            /\ Len(jobs') = Len(jobs)
            /\ \A i \in 1..Len(jobs) :
                 IF jobs[i].id = j
                 THEN /\ jobs'[i].transcript = Some(t)
                      /\ \A f \in DOMAIN jobs[i] \ {"transcript"} :
                           jobs'[i][f] = jobs[i][f]
                 ELSE jobs'[i] = jobs[i]
            /\ (~InRegistry(j) => jobs' = jobs)]_vars

\* a failed job whose transcript was edited beside a completed job whose
\* transcript was replaced by the empty string
C18_Witness ==
    \E i, k \in 1..Len(jobs) :
        /\ jobs[i].status = "error" /\ jobs[i].transcript = Some(<<"edited">>)
        /\ jobs[k].status = "completed" /\ jobs[k].transcript = Some(EmptyText)

\* C19: for every registry record, status = error exactly when the error
\* message is set.
C19_ErrorIffMessage ==
    \A i \in 1..Len(jobs) : jobs[i].status = "error" <=> IsSet(jobs[i].error)

\* a job failed with a non-Error rejection beside a completed job
C19_Witness ==
    \E i, k \in 1..Len(jobs) :
        /\ jobs[i].status = "error"
        /\ jobs[i].error = Some("Unknown error occurred")
        /\ jobs[k].status = "completed" /\ ~IsSet(jobs[k].error)

\* C20: with the mock provider and timers that run when due, every started
\* job reaches a state where its polling timer is cleared and, unless it was
\* removed, its registry record is completed, and it stays so; the first poll
\* already observes completed and clears the timer.
C20_EveryJobCompletes ==
    /\ \A j \in JobIds :
          (j \in DOMAIN svcJobs) ~>
              [](/\ pollTimer[j] = "cleared"
                 /\ InRegistry(j) => RegJob(j).status = "completed")
    /\ [][\A j \in JobIds :
            (PollTick(j) /\ InRegistry(j)) =>
                RegJob(j)'.status = "completed" /\ pollTimer'[j] = "cleared"]_vars

\* two jobs started together, both completed in the registry, timers cleared
C20_Witness ==
    /\ \A j \in 1..2 :
         /\ pollTimer[j] = "cleared"
         /\ InRegistry(j) /\ RegJob(j).status = "completed"
    /\ ~isLoading

IdsOf(jobList) == [i \in 1..Len(jobList) |-> jobList[i].id]

\* C21: for every group, the jobs displayed and the jobs handed to the batch
\* export come in the order of the group's jobIds (restricted to the jobs
\* displayed, resp. exported), whatever the order of the registry.
C21_DisplayFollowsInsertionOrder ==
    \A i \in 1..Len(groups) :
        /\ IdsOf(GetGroupJobs(groups[i])) =
             SelectSeq(groups[i].jobIds, LAMBDA id : id \in ShownJobIds)
        /\ IdsOf(GetCompletedGroupJobs(groups[i])) =
             SelectSeq(groups[i].jobIds,
                       LAMBDA id : id \in Range(IdsOf(GetCompletedGroupJobs(groups[i]))))

Started(j) == j \in DOMAIN closureJob

\* C22: a job's record enters the registry with its startTranscription call,
\* leaves it only by removeJob with its id, and once removed is never put back,
\* not even by a later tick of its polling timer.
C22_PresentUntilRemoved ==
    [][\A j \in JobIds :
         /\ (~Started(j) /\ Started(j)') => InRegistry(j)'
         /\ (InRegistry(j) /\ ~InRegistry(j)') => RemoveJob(j)
         /\ (Started(j) /\ ~InRegistry(j)) => ~InRegistry(j)']_vars

\* job 1 was removed and its polling timer has since been cleared by a tick,
\* while job 2 is still in the registry
C22_Witness ==
    /\ Started(1) /\ ~InRegistry(1) /\ pollTimer[1] = "cleared"
    /\ InRegistry(2)

RecordIds(records) == {records[i].id : i \in 1..Len(records)}
InFlightRecords == IF ingest = Undefined THEN <<>> ELSE ingest[1].valid
IssuedIds ==
    RecordIds(audioFiles) \cup RecordIds(returned.result) \cup RecordIds(InFlightRecords)

C29_EveryUrlHeldOrRevoked ==
    \A u \in 1..Len(urls) :
        \/ urls[u].state = "revoked"
        \/ u \in HeldUrls(audioFiles) \cup HeldUrls(InFlightRecords)
        \/ ingest # Undefined /\ u = Len(urls)

\* a job has a transcript when the field holds a non-empty text
HasText(job) == job.transcript # Undefined /\ job.transcript # Some(EmptyText)
WithText(jobList) == SelectSeq(jobList, HasText)
EntryTexts(payload) ==
    [i \in 1..Len(payload.content.entries) |-> payload.content.entries[i].text]

\* C24 as stated: with separateFiles set there are as many payloads as jobs
\* with a transcript; otherwise a non-empty list gives one payload with one
\* entry per job with a transcript; an empty list gives none.
C24_SkipsJobsWithoutTranscript ==
    /\ exported.jobs = <<>> => exported.payloads = <<>>
    /\ (exported.jobs # <<>> /\ exported.options.separateFiles)
         => Len(exported.payloads) = Len(WithText(exported.jobs))
    /\ (exported.jobs # <<>> /\ ~exported.options.separateFiles)
         => /\ Len(exported.payloads) = 1
            /\ EntryTexts(exported.payloads[1]) =
                 [i \in 1..Len(WithText(exported.jobs)) |->
                     WithText(exported.jobs)[i].transcript[1]]

SeparateMode(options) == options.separateFiles /\ options.format # "zip"

\* C24 amended: the same with the separate-files mode being separateFiles set
\* and a format other than zip, and every other call being the combined mode.
C24_SkipsJobsWithoutTranscriptByMode ==
    /\ exported.jobs = <<>> => exported.payloads = <<>>
    /\ (exported.jobs # <<>> /\ SeparateMode(exported.options))
         => /\ Len(exported.payloads) = Len(WithText(exported.jobs))
            /\ \A i \in 1..Len(exported.payloads) :
                 exported.payloads[i].content = WithText(exported.jobs)[i].transcript[1]
    /\ (exported.jobs # <<>> /\ ~SeparateMode(exported.options))
         => /\ Len(exported.payloads) = 1
            /\ EntryTexts(exported.payloads[1]) =
                 [i \in 1..Len(WithText(exported.jobs)) |->
                     WithText(exported.jobs)[i].transcript[1]]

\* a pending job and a completed job exported into one combined txt payload
\* that holds the completed job's entry only
C24_Witness ==
    /\ Len(exported.jobs) = 2
    /\ exported.jobs[1].status = "pending" /\ HasText(exported.jobs[2])
    /\ ~exported.options.separateFiles /\ exported.options.format = "txt"
    /\ Len(exported.payloads) = 1
    /\ Len(exported.payloads[1].content.entries) = 1

\* C25: for every job and every group in the registries, the job's groupId is
\* the group's id exactly when the job's id is in the group's jobIds.
C25_ViewsAgree ==
    \A i \in 1..Len(jobs) : \A k \in 1..Len(groups) :
        jobs[i].groupId = Some(groups[k].id)
            <=> jobs[i].id \in Range(groups[k].jobIds)

\* C28: every job whose groupId is set names a group that is in the group
\* registry.
C28_GroupLinkResolves ==
    \A i \in 1..Len(jobs) :
        IsSet(jobs[i].groupId) => jobs[i].groupId[1] \in GroupIdsOf(groups)

\* C30: whenever a job is selected, the selected record is the registry's
\* current record with that id.
C30_SelectedJobIsCurrent ==
    IsSet(selectedJob) =>
        \E i \in 1..Len(jobs) :
            /\ jobs[i].id = selectedJob[1].id
            /\ jobs[i].status = selectedJob[1].status
            /\ jobs[i].progress = selectedJob[1].progress
            /\ jobs[i].transcript = selectedJob[1].transcript

\* C26: a poll tick or a start-failure update of a job that is not yet
\* terminal in the registry keeps the groupId the registry has for it, and
\* keeps its transcript when the caller has set one.
C26_EditsSurviveRefresh ==
    [][\A j \in JobIds :
         (/\ InRegistry(j) /\ ~IsTerminal(RegJob(j).status)
          /\ PollTick(j) \/ \E e \in Failures : ProviderReject(j, e))
         => /\ RegJob(j)'.groupId = RegJob(j).groupId
            /\ IsSet(RegJob(j).transcript) =>
                 RegJob(j)'.transcript = RegJob(j).transcript]_vars

InFlight(j) ==
    Started(j) /\ simPc[j].at # "rejected" /\ pollTimer[j] # "cleared"

\* C27: isLoading is true exactly when some started job has neither failed at
\* start nor been seen terminal by its poll.
C27_LoadingIffJobInFlight ==
    isLoading <=> \E j \in JobIds : InFlight(j)
====
